---- MODULE Spec2Model ----
(***************************************************************************)
(* A model of metropolis.cpp, the driver that parses a parameter-sweep     *)
(* file, enumerates every combination of the swept values ("odometer"),    *)
(* runs one simulation per combination in a bounded pseudo thread pool and *)
(* rewrites the XML report after every finished simulation.                  *)
(*                                                                         *)
(* The main thread is modelled by the program counter pc; the worker       *)
(* threads started with std::async appear through JobComplete, the moment  *)
(* a future becomes ready.  The physics of one simulation is opaque: a     *)
(* result is the Info it was started from, marked as computed.             *)
(***************************************************************************)
EXTENDS Integers, Sequences, FiniteSets, TLC

\* ------------------------------------------------------------------ bounds
\* Largest thread count given on the command line.
MaxThreads == 2
\* Longest value list of one entry of the parameters file.
MaxLen == 2
\* Most entries in one parameters file.
MaxEntries == 3
\* Largest sweep (number of combinations) of a parameters file.
MaxConfigs == 4
\* Most tokens after the key, where the reading of one entry is followed
\* token by token.
MaxTokens == 4
\* Most custom spins in one parameters file.
MaxSpins == 2

\* ---------------------------------------------------- the universe of names
\* Parameter names: two that nextIter maps to fields of Info ("kT", "B_x")
\* and one that is read as a constant only ("width").
Keys == {"B_x", "kT", "width"}
\* Keys with an entry in the "fields" map of nextIter.
FieldKeys == {"B_x", "kT"}
\* Label names: an entry without label token is labelled by its own key.
Labels == Keys
\* The label tokens written in the entries of a parameters file.
LabelTokens == {"kT"}
\* The iteration order of std::map<string, ...> and std::set<string>.
KeyOrder == <<"B_x", "kT", "width">>
\* The value lists an entry can hold: 1, 2, .. n.
Vecs == {[i \in 1..n |-> i] : n \in 1..MaxLen}

\* An Info: the resolved value of every field, and whether the results of
\* algorithm are in it; id is history, the number of the nextIter call that built it.
\* spins is the list of custom spins, applied the ones among them that
\* algorithm has set in the lattice.
NoInfo ==
    [id |-> 0, params |-> [k \in FieldKeys |-> 0], computed |-> FALSE,
     spins |-> <<>>, applied |-> <<>>]
EmptySlot == [valid |-> FALSE, ready |-> FALSE, info |-> NoInfo]

VARIABLES
    pc,            \* position of the main thread
    exitCode,      \* value returned by main, -1 while running
    threadCount,   \* argv[6]
    p,             \* parameter name -> list of values (<<>>: no entry)
    labelNames,    \* labels in the order of first appearance
    labelMap,      \* label -> set of parameter names ({}: no entry)
    labelMapInv,   \* parameter name -> label ("": no entry)
    iters,         \* label -> cursor
    iterLengths,   \* label -> length (0: no entry)
    entries,       \* number of entries read from the parameters file
    hasNextIter,
    preInfo,       \* static Info preInfo of nextIter
    curInfo,       \* Info preInfo of the while loop (copy returned by nextIter)
    threadPool,    \* slot index -> future<Info>
    nextIndex,
    postInfo,
    openThreads,
    doc,           \* xml_document: its preamble and the <data> nodes of root
    file,          \* content of the output file on disk
    foutFail,      \* failbit of fout
    lastWrite,     \* outcome of the last finished write of doc: none, ok, failed
    ret,           \* where recordData returns to
    calls,         \* history: per call of nextIter, the cursors it read and its Info
    readyOrder,    \* history: ids of the finished jobs still in the pool, oldest first
    reader,        \* the locals of the parser at the entry it read last: vec, lbl, ...
    written,       \* history: label -> the <<key, length>> of the entries written with it
    argv,          \* the command line: argc and argv[3] .. argv[6]
    spins,         \* the custom spins of the parameters file, in file order
    idle           \* history: the rounds of the clean-up since the last one that found a
                   \* future, up to threadCount

vars == <<pc, exitCode, threadCount, p, labelNames, labelMap, labelMapInv, iters,
          iterLengths, entries, hasNextIter, preInfo, curInfo, threadPool,
          nextIndex, postInfo, openThreads, doc, file, foutFail, lastWrite, ret,
          calls, readyOrder, reader, written, argv, spins, idle>>

parseVars == <<p, labelNames, labelMap, labelMapInv, iters, iterLengths, entries>>
poolVars == <<threadPool, nextIndex, postInfo, openThreads, idle>>
fileVars == <<doc, file, foutFail, lastWrite, ret>>
enumVars == <<hasNextIter, preInfo, curInfo, calls>>
lexVars == <<reader, written>>
inputVars == <<threadCount, argv, spins>>

\* ----------------------------------------------------------------- helpers
RECURSIVE Product(_, _)
\* Product of the lengths of the labels in names (a sequence).
Product(names, lens) ==
    IF names = <<>> THEN 1
    ELSE lens[Head(names)] * Product(Tail(names), lens)

\* Serialize that prints the preamble and the newest <data> only.
SerializeNewest(d) ==
    IF d.preamble
    THEN <<"preamble">> \o (IF d.data = <<>> THEN <<>> ELSE <<d.data[Len(d.data)]>>)
    ELSE d.data

\* The document as it is printed to the file: preamble, then every <data>.
Serialize(d) == IF d.preamble THEN <<"preamble">> \o d.data ELSE d.data

\* The sequence s without its entries equal to x.
Without(s, x) == SelectSeq(s, LAMBDA y : y # x)

\* UsePool with >= for >: a single thread is given a pool as well.
UsePoolAlways == threadCount >= 1

\* threadCount > 1: the simulations run in the thread pool.
UsePool == threadCount > 1

\* SlotState that waits without the test of valid(): a slot without a future
\* is found ready.
SlotStateUnchecked(slot) == IF slot.valid /\ ~slot.ready THEN "pending" ELSE "ready"

\* SlotState with a wait that blocks: every valid future is found ready.
SlotStateBlocking(slot) == IF ~slot.valid THEN "empty" ELSE "ready"

\* SlotState without the test of valid(): a running future counts as empty.
SlotStateNoValid(slot) == IF slot.ready THEN "ready" ELSE "empty"

\* What the loops find in a slot: !valid(), a future that is ready within the
\* wait, or one that is not.
SlotState(slot) ==
    IF ~slot.valid THEN "empty"
    ELSE IF slot.ready THEN "ready" ELSE "pending"

\* NextSlot that forgets the increment.
NextSlotStuck(i) == i % threadCount

\* nextIndex = (nextIndex + 1) % threadCount
NextSlot(i) == (i + 1) % threadCount

\* LapOpen without the reset at slot 0.
LapOpenNoReset(i, open) == open

\* if (nextIndex == 0) openThreads = 0
LapOpen(i, open) == IF i = 0 THEN 0 ELSE open

\* AppendNode with prepend_node for append_node.
PrependNode(data, info) == <<info>> \o data

\* root->append_node(data)
AppendNode(data, info) == Append(data, info)

\* Truncate with ios::app for ios::trunc.
TruncateNot(f) == f

\* The file as ios::trunc leaves it.
Truncate(f) == <<>>

StrictPrefixes(s) == {SubSeq(s, 1, n) : n \in 0..(Len(s) - 1)}

\* ------------------------------------------------- the tokens of an entry
\* A whitespace-separated token of the parameters file: a number, or the
\* string s of an operator or of a bare word.
Num(n) == [s |-> "num", v |-> n]
Sym(x) == [s |-> x, v |-> 0]

\* fin >> val succeeds on the token.
IsNum(tok) == tok.s = "num"

\* fin >> str: the token as a string.
Str(tok) == IF IsNum(tok) THEN ToString(tok.v) ELSE tok.s

\* Or16 that returns the number thrown.
Or16Keep(e) == e

\* e |= 0x10 in the catch of the parser.
Or16(e) == IF (e \div 16) % 2 = 1 THEN e ELSE e + 16

\* Or32 with the mask of the parser's catch.
Or32As16(e) == IF (e \div 16) % 2 = 1 THEN e ELSE e + 16

\* e |= 0x20 in the catch of "prepare output file".
Or32(e) == IF (e \div 32) % 2 = 1 THEN e ELSE e + 32

\* Returns that lets main go on with the next entry.
ReturnsNot(e) == "parse"

\* return e in the catch of the parser: where main is after it.
Returns(e) == "exit"

\* The divisor of "lim += inc / 256".
Tolerance == 256

\* InRange without the compensation added to lim.
InRangeExact(val, lim, inc) ==
    \/ inc > 0 /\ val < lim
    \/ inc < 0 /\ val > lim

\* The condition of the while loop of a range, lim being the number read from
\* the file: val is compared with lim + inc / 256, here multiplied out.
InRange(val, lim, inc) ==
    \/ inc > 0 /\ val * Tolerance < lim * Tolerance + inc
    \/ inc < 0 /\ val * Tolerance > lim * Tolerance + inc

RECURSIVE Range(_, _, _, _)
\* while (...) { vec.push_back(val); val += inc; }
Range(vec, val, lim, inc) ==
    IF InRange(val, lim, inc)
    THEN Range(Append(vec, val), val + inc, lim, inc)
    ELSE vec

RECURSIVE Numbers(_)
\* while (fin >> val): the numbers at the head of the tokens.
Numbers(toks) ==
    IF toks # <<>> /\ IsNum(Head(toks))
    THEN <<Head(toks).v>> \o Numbers(Tail(toks))
    ELSE <<>>

\* The locals of the parser when it starts on the tokens text that follow a key.
Reading(text) ==
    [text |-> text, rest |-> text, lbl |-> "", vec |-> <<>>, code |-> 0, done |-> FALSE]

\* The parser between two entries.
Idle == [text |-> <<>>, rest |-> <<>>, lbl |-> "", vec |-> <<>>, code |-> 0, done |-> TRUE]

\* throw e
Throw(st, e) == [st EXCEPT !.code = e, !.done = TRUE]

\* Pass of a loop that ends after its first pass, with or without values.
PassOnce(st, rest, lbl, vec) ==
    [st EXCEPT !.rest = rest, !.lbl = lbl, !.vec = vec, !.done = TRUE]

\* The end of one pass of do { ... } while (vec.size() <= 0).
Pass(st, rest, lbl, vec) ==
    [st EXCEPT !.rest = rest, !.lbl = lbl, !.vec = vec, !.done = (vec # <<>>)]

\* Closes that takes any token for the end of the list.
ClosesLoose(after) == after # <<>>

\* fin.clear(); fin >> str; str == "}": the token after the numbers of a list.
Closes(after) == after # <<>> /\ Head(after).s = "}"

\* NoLabel that lets every bare token replace the label.
NoLabelEver(lbl) == TRUE

\* lbl.length() == 0: no label token was read for the entry yet.
NoLabel(lbl) == lbl = ""

\* ListKeepsOrder with the values pushed to the front of vec.
ListReversed(vec, nums) ==
    IF nums = <<>> THEN vec
    ELSE [i \in 1..(Len(vec) + Len(nums)) |->
             IF i <= Len(nums) THEN nums[Len(nums) + 1 - i] ELSE vec[i - Len(nums)]]

\* while (fin >> val) vec.push_back(val)
ListKeepsOrder(vec, nums) == vec \o nums

\* One pass of the do-while loop that reads "[label] = v", ": start limit
\* step" or "{ v1 v2 ... }".
ReadStep(st) ==
    IF st.rest = <<>> THEN Throw(st, 1)
    ELSE LET str == Head(st.rest)
             r == Tail(st.rest)
         IN  IF str.s = "="
             THEN IF r # <<>> /\ IsNum(Head(r))
                  THEN Pass(st, Tail(r), st.lbl, Append(st.vec, Head(r).v))
                  ELSE Throw(st, 5)
             ELSE IF str.s = ":"
             THEN IF Len(Numbers(r)) >= 3 /\ r[3].v # 0
                  THEN Pass(st, SubSeq(r, 4, Len(r)), st.lbl,
                            Range(st.vec, r[1].v, r[2].v, r[3].v))
                  ELSE Throw(st, 2)
             ELSE IF str.s = "{"
             THEN LET nums == Numbers(r)
                      after == SubSeq(r, Len(nums) + 1, Len(r))
                      vec == ListKeepsOrder(st.vec, nums)
                  IN  IF ~Closes(after) THEN Throw(st, 3)
                      ELSE IF Len(vec) <= 0 THEN Throw(st, 6)
                      ELSE Pass(st, Tail(after), st.lbl, vec)
             ELSE IF NoLabel(st.lbl)
             THEN Pass(st, r, Str(str), st.vec)
             ELSE Throw(st, 4)

RECURSIVE ReadLoop(_)
\* The do-while loop, run to its end or to its throw.
ReadLoop(st) == IF st.done THEN st ELSE ReadLoop(ReadStep(st))

\* The parser's locals after the entry with the tokens text.
ReadEntry(text) == ReadLoop(Reading(text))

\* ------------------------------------------------------- the custom spins
\* The tokens of a custom spin: "[x" and "z]", a bracket attached to a number.
Open(x) == [s |-> "[num", v |-> x]
Close(z) == [s |-> "num]", v |-> z]

\* A Spin.
Spin(x, y, z, norm) == [x |-> x, y |-> y, z |-> z, norm |-> norm]

\* The custom spin "[x y z] = norm" as the parser reads it, toks being the
\* key and the tokens after it, with numbers where numbers are read: x from
\* the key or from the next token, y, z from a token with or without "]" at
\* its end, then the token that has to be "=", then norm.
ReadSpin(toks) ==
    LET r == IF Head(toks).s = "[" THEN Tail(toks) ELSE toks
        str == IF Len(r) >= 4 THEN r[4].s ELSE r[Len(r)].s
    IN  IF str # "="
        THEN [code |-> 21, spin |-> Spin(0, 0, 0, 0)]
        ELSE [code |-> 0, spin |-> Spin(r[1].v, r[2].v, r[3].v, r[5].v)]

\* spins.push_back(spin) at the front of the list.
PrependSpin(list, spin) == <<spin>> \o list

\* spins.push_back(spin)
AppendSpin(list, spin) == Append(list, spin)

\* The custom spins of the parameters files: at a lattice site and off the
\* lattice, each bracket attached to its number or a token of its own, and
\* one without "=".
SpinTexts ==
    UNION {{open \o <<Num(c[2])>> \o close \o <<Sym("="), Num(5)>> :
                open \in {<<Open(c[1])>>, <<Sym("["), Num(c[1])>>},
                close \in {<<Close(c[3])>>, <<Num(c[3]), Sym("]")>>}} :
            c \in {<<0, 0, 0>>, <<1, 2, 3>>}}
      \cup {<<Open(1), Num(2), Close(3), Num(5)>>}

\* The values an entry of the sweep is written with: "= 1", ": 1 n 1" and
\* "{ 1 .. n }".
ValueTexts ==
    {<<Sym("="), Num(1)>>}
        \cup {<<Sym(":"), Num(1), Num(n), Num(1)>> : n \in 1..MaxLen}
        \cup {<<Sym("{")>> \o [i \in 1..n |-> Num(i)] \o <<Sym("}")>> : n \in 1..MaxLen}

\* Entries the parser rejects: the end of the file, ranges with step 0 or
\* with a number missing, lists without "}" or without values, "=" without
\* a number, a second label.
BadTexts ==
    {<<>>,
     <<Sym(":"), Num(1), Num(2), Num(0)>>, <<Sym(":"), Num(1), Num(2)>>,
     <<Sym(":"), Num(1), Sym("}"), Num(1)>>,
     <<Sym("{"), Num(1)>>, <<Sym("{"), Num(1), Sym("=")>>,
     <<Sym("{"), Sym("}")>>,
     <<Sym("=")>>,
     <<Sym("kT"), Sym("kT"), Sym("="), Num(1)>>,
     <<Sym("kT"), Sym(":"), Num(1), Num(2), Num(0)>>,
     <<Sym("kT"), Sym("{"), Sym("}")>>}

\* A range that starts beyond its limit.
EmptyRange == <<Sym(":"), Num(2), Num(1), Num(1)>>

\* The texts that follow a key in the parameters files of the sweep: the
\* values with or without label token, a value after an empty range, and
\* the rejected entries.
EntryTexts ==
    {pre \o val : pre \in {<<>>} \cup {<<Sym(l)>> : l \in LabelTokens}, val \in ValueTexts}
      \cup {EmptyRange \o <<Sym("="), Num(1)>>}
      \cup BadTexts

\* The tokens of the texts that are read token by token: the operators, a
\* bare word, and numbers that give ascending, descending and empty ranges.
Alphabet ==
    {Sym("="), Sym(":"), Sym("{"), Sym("}"), Sym("kT")}
        \cup {Num(n) : n \in {-1, 0, 1, 2, 5}}

\* Ranges with a step so long that its 256th part exceeds the distance of
\* the start, or of the second term, beyond the limit.
LongSteps ==
    {<<Sym(":"), Num(2), Num(1), Num(300)>>, <<Sym(":"), Num(-298), Num(1), Num(300)>>,
     <<Sym(":"), Num(0), Num(1), Num(-300)>>}

\* Every text of at most MaxTokens tokens, and the ranges with long steps.
Texts == UNION {[1..n -> Alphabet] : n \in 0..MaxTokens} \cup LongSteps

\* The variables of main as they are declared and as the tables are built,
\* the output file holding old before the run.
DeclaredWith(old) ==
    /\ exitCode = -1
    /\ p = [k \in Keys |-> <<>>]
    /\ labelNames = <<>>
    /\ labelMap = [l \in Labels |-> {}]
    /\ labelMapInv = [k \in Keys |-> ""]
    /\ iters = [l \in Labels |-> 0]
    /\ iterLengths = [l \in Labels |-> 0]
    /\ entries = 0
    /\ hasNextIter = TRUE
    /\ preInfo = NoInfo
    /\ curInfo = NoInfo
    /\ threadPool = [i \in {} |-> EmptySlot]
    /\ nextIndex = 0
    /\ postInfo = NoInfo
    /\ openThreads = 0
    /\ idle = 0
    /\ doc = [preamble |-> FALSE, data |-> <<>>]
    /\ file = old
    /\ foutFail = FALSE
    /\ lastWrite = "none"
    /\ ret = "loop"
    /\ calls = <<>>
    /\ readyOrder = <<>>
    /\ written = [l \in Labels |-> {}]
    /\ spins = <<>>

\* The declarations of main in a run that finds no output file.
Declared == DeclaredWith(<<>>)

\* The state after the declarations of main, before the output file is opened.
Start == pc = "start" /\ Declared

\* A command line without argv[6]: the number of threads is the default.
DefaultThreads ==
    [argc |-> 6, model |-> "UP_DOWN_MODEL", mode |-> "RANDOMIZE", mol |-> "LINEAR",
     threads |-> Sym("")]

\* The state after the arguments were accepted, the number of threads being
\* the one of the hardware.
Init ==
    /\ Start
    /\ threadCount \in 1..MaxThreads
    /\ argv = DefaultThreads
    /\ reader = Idle

\* ------------------------------------------------------- the command line
\* The command lines: every number of arguments, a valid and an invalid
\* string for the model and the mode, and with seven arguments a word, 0
\* and the positive numbers for the number of threads, with fewer a molecule
\* type that is no keyword.
CommandLines ==
    {a \in [argc : 1..7,
            model : {"UP_DOWN_MODEL", "x"},
            mode : {"RANDOMIZE", "x"},
            mol : {"LINEAR", "x"},
            threads : {Sym(""), Sym("x"), Num(0)} \cup {Num(n) : n \in 1..MaxThreads}] :
        IF a.argc > 6 THEN a.threads # Sym("") /\ a.mol = "LINEAR"
        ELSE a.threads = Sym("")}

\* What main returns for the command line a, 0 standing for no return;
\* loads tells whether a molecule type that is no keyword loads as a file.
ArgumentError(a, loads) ==
    IF a.argc <= 1 THEN -1
    ELSE IF a.argc <= 2 THEN -2
    ELSE IF a.argc <= 3 THEN -6
    ELSE IF a.argc <= 4 THEN -7
    ELSE IF a.argc <= 5 THEN -8
    ELSE IF a.argc > 6 /\ (~IsNum(a.threads) \/ a.threads.v <= 0) THEN -4
    ELSE IF a.model \notin {"CONTINUOUS_SPIN_MODEL", "UP_DOWN_MODEL"} THEN -3
    ELSE IF a.mode \notin {"REINITIALIZE", "RANDOMIZE"} THEN -5
    ELSE IF a.mol \notin {"LINEAR", "CIRCULAR"} /\ ~loads THEN -9
    ELSE 0

\* The head of main: the tests of argc and of argv[3] to argv[6].
Arguments ==
    /\ pc = "args"
    /\ \E loads \in BOOLEAN :
          LET e == ArgumentError(argv, loads)
          IN  /\ threadCount' =
                    IF argv.argc > 6 /\ IsNum(argv.threads) /\ e \notin {-1, -2, -6, -7, -8}
                    THEN argv.threads.v ELSE threadCount
              /\ IF e # 0
                 THEN pc' = "exit" /\ exitCode' = e
                 ELSE pc' = "start" /\ UNCHANGED exitCode
    /\ UNCHANGED <<argv, spins, parseVars, enumVars, poolVars, fileVars, readyOrder, lexVars>>


\* ------------------------------------------------------- the output file
\* fout.close(); fout.open(filename, ios::out | ios::trunc): the file is
\* emptied (ok), or the open fails and leaves the file and sets the failbit.
OpenTrunc(ok) ==
    IF ok
    THEN /\ file' = Truncate(file)
         /\ foutFail' = FALSE
    ELSE /\ file' = file
         /\ foutFail' = TRUE

\* prepare output file: open it and write the placeholder line.
PrepareOutput ==
    /\ pc = "start"
    /\ \/ /\ file' = Truncate(file) \o <<"trash">>
          /\ pc' = "parse"
          /\ UNCHANGED exitCode
       \/ /\ file' = file              \* open failed: throw 1
          /\ pc' = "exit"
          /\ exitCode' = Or32(1)
       \/ /\ file' = Truncate(file)    \* placeholder not written: throw 2
          /\ pc' = "exit"
          /\ exitCode' = Or32(2)
    /\ UNCHANGED <<inputVars, parseVars, enumVars, poolVars, doc, foutFail,
                   lastWrite, ret, readyOrder>>
    /\ UNCHANGED lexVars

\* fout << doc << flush, and the test of fout.fail() that follows it: the
\* whole document reaches the file (ok), or the stream was not open and
\* nothing is written, or the write breaks off part way.
WriteFile(ok) ==
    /\ pc = "write"
    /\ IF ok
       THEN /\ ~foutFail
            /\ file' = file \o Serialize(doc)
            /\ lastWrite' = "ok"
       ELSE /\ \/ /\ foutFail
                  /\ file' = file
               \/ /\ ~foutFail
                  /\ \E part \in StrictPrefixes(Serialize(doc)) : file' = file \o part
            /\ lastWrite' = "failed"
    /\ foutFail' = FALSE                \* fout.clear()
    /\ pc' = ret
    /\ UNCHANGED <<exitCode, inputVars, parseVars, enumVars, poolVars, doc, ret,
                   readyOrder>>
    /\ UNCHANGED lexVars

\* ------------------------------------------------------------ the parser
\* The texts that give a key a second time, also with the label token "B_x".
RelabelTexts == EntryTexts \cup {<<Sym("B_x")>> \o val : val \in ValueTexts}

\* The parser's locals after each of the texts of an entry.
EntryResults == [text \in RelabelTexts |-> ReadEntry(text)]

\* NewLabel that holds for every entry.
NewLabelAlways(keys) == TRUE

\* labelMap.find(lbl) == labelMap.end(): keys is the set of the label, or
\* empty when the map has no entry for it.
NewLabel(keys) == keys = {}

\* if (lbl.length() == 0) lbl = key: the label the entry is stored with.
LabelOf(lbl, key) == IF lbl = "" THEN key ELSE lbl

\* Inconsistent that only rejects a list longer than the label's length.
InconsistentLonger(len, size) == len < size

\* f->second != vec.size()
Inconsistent(len, size) == len # size

\* One entry "key [label] <values>" of the parameters file: text is read by
\* the do-while loop, and the value list is stored in the tables.
ParseEntry(key, text) ==
    /\ pc = "parse"
    /\ entries' = entries + 1
    /\ \E r \in {EntryResults[text]} :
       LET lbl == LabelOf(r.lbl, key)
           vec == r.vec
       IN  /\ IF r.code # 0
              THEN /\ reader' = r
                   /\ pc' = Returns(r.code)
                   /\ exitCode' = Or16(r.code)
                   /\ UNCHANGED <<p, labelNames, labelMap, labelMapInv, iters,
                                  iterLengths, written>>
              ELSE /\ p' = [p EXCEPT ![key] = vec]
                   /\ labelNames' = IF NewLabel(labelMap[lbl]) THEN Append(labelNames, lbl)
                                    ELSE labelNames
                   /\ labelMap' = [labelMap EXCEPT ![lbl] = @ \cup {key}]
                   /\ labelMapInv' = [labelMapInv EXCEPT ![key] = lbl]
                   /\ iters' = [iters EXCEPT ![lbl] = 0]
                   /\ written' = [written EXCEPT ![lbl] = @ \cup {<<key, Len(vec)>>}]
                   /\ IF iterLengths[lbl] = 0
                      THEN /\ iterLengths' = [iterLengths EXCEPT ![lbl] = Len(vec)]
                           /\ UNCHANGED <<pc, exitCode>>
                      ELSE /\ UNCHANGED iterLengths
                           /\ IF Inconsistent(iterLengths[lbl], Len(vec))
                              THEN /\ pc' = Returns(7)  \* throw 7
                                   /\ exitCode' = Or16(7)
                              ELSE UNCHANGED <<pc, exitCode>>
                   /\ reader' = IF exitCode' # exitCode THEN Throw(r, 7) ELSE r
    /\ Product(labelNames', iterLengths') <= MaxConfigs
    /\ UNCHANGED <<inputVars, enumVars, poolVars, fileVars, readyOrder>>

\* One custom spin of the parameters file: "[x y z] = norm".
ParseSpin ==
    /\ pc = "parse"
    /\ Len(spins) < MaxSpins
    /\ \E text \in SpinTexts :
          LET r == ReadSpin(text)
          IN  /\ reader' = [Idle EXCEPT !.text = text, !.code = r.code]
              /\ IF r.code # 0
                 THEN /\ pc' = Returns(r.code)
                      /\ exitCode' = Or16(r.code)
                      /\ UNCHANGED spins
                 ELSE /\ spins' = AppendSpin(spins, r.spin)
                      /\ UNCHANGED <<pc, exitCode>>
    /\ UNCHANGED <<threadCount, argv, parseVars, enumVars, poolVars, fileVars,
                   readyOrder, written>>

\* The next entry of a parameters file of at most MaxEntries entries.
ParseFile ==
    /\ pc = "parse"
    /\ entries < MaxEntries
    /\ \E key \in Keys, text \in EntryTexts : ParseEntry(key, text)

\* fin >> key fails: the end of the parameters file.
ParseEnd ==
    /\ pc = "parse"
    /\ pc' = "preamble"
    /\ reader' = Idle                   \* the locals of the parser end
    /\ UNCHANGED <<exitCode, inputVars, parseVars, enumVars, poolVars, fileVars,
                   readyOrder, written>>

\* MissingKey of a skeleton that is built without p.at.
MissingKeyNever == FALSE

\* p.at(name) throws out_of_range: a name of the skeleton has no entry.
MissingKey == \E k \in Keys : p[k] = <<>>

\* The XML skeleton: every p.at(name) of a name without entry throws
\* out_of_range; otherwise the skeleton is added to doc, the file reopened,
\* and the thread pool set up.
Preamble(ok) ==
    /\ pc = "preamble"
    /\ IF MissingKey
       THEN /\ pc' = "exit"
            /\ exitCode' = 24
            /\ UNCHANGED <<doc, file, foutFail, ret, threadPool>>
       ELSE /\ doc' = [doc EXCEPT !.preamble = TRUE]
            /\ OpenTrunc(ok)
            /\ pc' = "write"
            /\ ret' = "loop"
            /\ threadPool' = IF UsePool
                             THEN [i \in 0..(threadCount - 1) |-> EmptySlot]
                             ELSE threadPool
            /\ UNCHANGED exitCode
    /\ UNCHANGED <<inputVars, parseVars, enumVars, nextIndex, postInfo, openThreads, idle,
                   lastWrite, readyOrder>>
    /\ UNCHANGED lexVars


\* --------------------------------------------------------- the enumerator
RECURSIVE SetParamsFirst(_, _, _)
\* SetParams reading index 0 of every list instead of the label's cursor.
SetParamsFirst(params, li, ki) ==
    IF li > Len(KeyOrder) THEN params
    ELSE IF ki > Len(KeyOrder) THEN SetParamsFirst(params, li + 1, 1)
    ELSE LET l == KeyOrder[li]
             k == KeyOrder[ki]
         IN  IF k \in labelMap[l] /\ k \in FieldKeys /\ iters[l] < Len(p[k])
             THEN SetParamsFirst([params EXCEPT ![k] = p[k][1]], li, ki + 1)
             ELSE SetParamsFirst(params, li, ki + 1)

RECURSIVE SetParams(_, _, _)
\* "set Info::parameters": for every label of iters (in map order) and every
\* parameter of the label (in set order), store the parameter's value at the
\* label's cursor in its field; a parameter without field, or a cursor beyond
\* the parameter's list, throws out_of_range and is skipped.
SetParams(params, li, ki) ==
    IF li > Len(KeyOrder) THEN params
    ELSE IF ki > Len(KeyOrder) THEN SetParams(params, li + 1, 1)
    ELSE LET l == KeyOrder[li]
             k == KeyOrder[ki]
         IN  IF k \in labelMap[l] /\ k \in FieldKeys /\ iters[l] < Len(p[k])
             THEN SetParams([params EXCEPT ![k] = p[k][iters[l] + 1]], li, ki + 1)
             ELSE SetParams(params, li, ki + 1)

RECURSIVE CarryPastEnd(_, _)
\* Carry comparing with > instead of >=: a cursor may reach its length.
CarryPastEnd(its, i) ==
    IF i > Len(labelNames) THEN [iters |-> its, pos |-> i]
    ELSE LET l == labelNames[i]
         IN  IF its[l] + 1 > iterLengths[l]
             THEN CarryPastEnd([its EXCEPT ![l] = 0], i + 1)
             ELSE [iters |-> [its EXCEPT ![l] = its[l] + 1], pos |-> i]

\* The labels with an entry, in map order.
MapOrder == SelectSeq(KeyOrder, LAMBDA l : labelMap[l] # {})

RECURSIVE CarryMapOrder(_, _)
\* Carry walking the labels in the order of the iters map instead of labelNames.
CarryMapOrder(its, i) ==
    IF i > Len(MapOrder) THEN [iters |-> its, pos |-> i]
    ELSE LET l == MapOrder[i]
         IN  IF its[l] + 1 >= iterLengths[l]
             THEN CarryMapOrder([its EXCEPT ![l] = 0], i + 1)
             ELSE [iters |-> [its EXCEPT ![l] = its[l] + 1], pos |-> i]

RECURSIVE CarryNoReset(_, _)
\* Carry that leaves a cursor at its label's length when it carries.
CarryNoReset(its, i) ==
    IF i > Len(labelNames) THEN [iters |-> its, pos |-> i]
    ELSE LET l == labelNames[i]
         IN  IF its[l] + 1 >= iterLengths[l]
             THEN CarryNoReset([its EXCEPT ![l] = its[l] + 1], i + 1)
             ELSE [iters |-> [its EXCEPT ![l] = its[l] + 1], pos |-> i]

RECURSIVE CarryStride(_, _)
\* Carry with a stride of threadCount: every thread its own share of the sweep.
CarryStride(its, i) ==
    IF i > Len(labelNames) THEN [iters |-> its, pos |-> i]
    ELSE LET l == labelNames[i]
         IN  IF its[l] + threadCount >= iterLengths[l]
             THEN CarryStride([its EXCEPT ![l] = 0], i + 1)
             ELSE [iters |-> [its EXCEPT ![l] = its[l] + threadCount], pos |-> i]

RECURSIVE Carry(_, _)
\* "iterate iters forward one space": from label number i on, increment the
\* cursor; a cursor that reaches its length is reset and the next label is
\* incremented.  pos is the label that took the increment, or past the end.
Carry(its, i) ==
    IF i > Len(labelNames) THEN [iters |-> its, pos |-> i]
    ELSE LET l == labelNames[i]
         IN  IF its[l] + 1 >= iterLengths[l]
             THEN Carry([its EXCEPT ![l] = 0], i + 1)
             ELSE [iters |-> [its EXCEPT ![l] = its[l] + 1], pos |-> i]

\* The lattice sites of the MSD that the simulations are run on.
Sites == {<<1, 2, 3>>}

\* msd.getSpin(s.x, s.y, s.z) does not throw out_of_range.
HasSite(s) == <<s.x, s.y, s.z>> \in Sites

RECURSIVE SetSpinsAborts(_, _)
\* SetSpins with the try around the loop: the first spin without site ends it.
SetSpinsAborts(applied, todo) ==
    IF todo = <<>> THEN applied
    ELSE IF HasSite(Head(todo))
         THEN SetSpinsAborts(Append(applied, Head(todo)), Tail(todo))
         ELSE applied

RECURSIVE SetSpins(_, _)
\* for (const Spin &s : info.spins): the spin is set, or getSpin throws and
\* the catch inside the loop goes on with the next spin.
SetSpins(applied, todo) ==
    IF todo = <<>> THEN applied
    ELSE IF HasSite(Head(todo))
         THEN SetSpins(Append(applied, Head(todo)), Tail(todo))
         ELSE SetSpins(applied, Tail(todo))

\* What one simulation returns: its Info with the results filled in, which
\* depend on the parameters and on the spins that were set.
algorithm(info) ==
    [info EXCEPT !.computed = TRUE, !.applied = SetSpins(<<>>, info.spins)]

\* One pass of "while (hasNextIter)" up to the thread pool: the call of
\* nextIter, and with a single thread the simulation itself.
Iterate ==
    /\ pc = "loop"
    /\ hasNextIter
    /\ LET info == [id |-> Len(calls) + 1,
                    params |-> SetParams(preInfo.params, 1, 1),
                    computed |-> FALSE,
                    spins |-> spins,
                    applied |-> <<>>]
           c == Carry(iters, 1)
       IN  /\ preInfo' = info
           /\ curInfo' = info
           /\ calls' = Append(calls, [cursor |-> iters, info |-> info])
           /\ iters' = c.iters
           /\ hasNextIter' = (c.pos <= Len(labelNames))
           /\ IF UsePool
              THEN /\ pc' = "poll"
                   /\ UNCHANGED <<postInfo, readyOrder>>
              ELSE /\ postInfo' = algorithm(info)
                   /\ pc' = "record"
                   /\ UNCHANGED readyOrder
    /\ ret' = "loop"
    /\ UNCHANGED <<exitCode, inputVars, p, labelNames, labelMap, labelMapInv,
                   iterLengths, entries, threadPool, nextIndex, openThreads, idle, doc,
                   file, foutFail, lastWrite>>
    /\ UNCHANGED lexVars

\* ---------------------------------------------------------- the thread pool
\* async(launch::async, algorithm, info)
Started(info) == [valid |-> TRUE, ready |-> FALSE, info |-> info]

\* "get result from which ever simulation finishes next": one round of the
\* while(true) loop, and the start of the next simulation when it breaks.
Poll ==
    /\ pc = "poll"
    /\ LET slot == threadPool[nextIndex]
       IN  \/ /\ SlotState(slot) = "empty"   \* validResult = false
              /\ threadPool' = [threadPool EXCEPT ![nextIndex] = Started(curInfo)]
              /\ pc' = "loop"
              /\ UNCHANGED <<nextIndex, postInfo, readyOrder>>
           \/ /\ SlotState(slot) = "ready"
              /\ postInfo' = slot.info
              /\ readyOrder' = Without(readyOrder, slot.info.id)
              /\ threadPool' = [threadPool EXCEPT ![nextIndex] = Started(curInfo)]
              /\ pc' = "record"
              /\ UNCHANGED nextIndex
           \/ /\ SlotState(slot) = "pending"
              /\ nextIndex' = NextSlot(nextIndex)
              /\ UNCHANGED <<pc, threadPool, postInfo, readyOrder>>
    /\ UNCHANGED <<exitCode, inputVars, parseVars, enumVars, openThreads, idle, fileVars>>
    /\ UNCHANGED lexVars

\* JobComplete in which the worker thread itself adds its result to doc.
JobCompleteRecords(i) ==
    /\ i \in DOMAIN threadPool
    /\ threadPool[i].valid
    /\ ~threadPool[i].ready
    /\ threadPool' = [threadPool EXCEPT ![i] = [valid |-> TRUE, ready |-> TRUE,
                                                 info |-> algorithm(@.info)]]
    /\ readyOrder' = Append(readyOrder, threadPool[i].info.id)
    /\ doc' = [doc EXCEPT !.data = AppendNode(@, algorithm(threadPool[i].info))]
    /\ UNCHANGED <<pc, exitCode, inputVars, parseVars, enumVars, nextIndex, postInfo,
                   openThreads, idle, file, foutFail, lastWrite, ret, lexVars>>

\* JobComplete in which algorithm works on the Info that nextIter keeps,
\* not on a copy of its own.
JobCompleteShared(i) ==
    /\ i \in DOMAIN threadPool
    /\ threadPool[i].valid
    /\ ~threadPool[i].ready
    /\ threadPool' = [threadPool EXCEPT ![i] =
                          [valid |-> TRUE, ready |-> TRUE,
                           info |-> [algorithm(preInfo) EXCEPT !.id = threadPool[i].info.id]]]
    /\ readyOrder' = Append(readyOrder, threadPool[i].info.id)
    /\ UNCHANGED <<pc, exitCode, inputVars, parseVars, enumVars, nextIndex, postInfo,
                   openThreads, idle, fileVars, lexVars>>

\* A worker thread returns from algorithm: its future becomes ready.
JobComplete(i) ==
    /\ i \in DOMAIN threadPool
    /\ threadPool[i].valid
    /\ ~threadPool[i].ready
    /\ threadPool' = [threadPool EXCEPT ![i] = [valid |-> TRUE, ready |-> TRUE,
                                                 info |-> algorithm(@.info)]]
    /\ readyOrder' = Append(readyOrder, threadPool[i].info.id)
    /\ UNCHANGED <<pc, exitCode, inputVars, parseVars, enumVars, nextIndex, postInfo,
                   openThreads, idle, fileVars>>
    /\ UNCHANGED lexVars

\* recordData: a <data> node with the Info is appended to root, and the file
\* is reopened for the rewrite.
RecordData(ok) ==
    /\ pc = "record"
    /\ doc' = [doc EXCEPT !.data = AppendNode(@, postInfo)]
    /\ OpenTrunc(ok)
    /\ pc' = "write"
    /\ UNCHANGED <<exitCode, inputVars, parseVars, enumVars, poolVars, lastWrite, ret,
                   readyOrder>>
    /\ UNCHANGED lexVars

\* The end of "while (hasNextIter)".
EndLoop ==
    /\ pc = "loop"
    /\ ~hasNextIter
    /\ IF UsePool
       THEN /\ pc' = "drain"
            /\ openThreads' = 0
            /\ UNCHANGED exitCode
       ELSE /\ pc' = "exit"
            /\ exitCode' = 0
            /\ UNCHANGED openThreads
    /\ UNCHANGED <<inputVars, parseVars, enumVars, threadPool, nextIndex, postInfo,
                   idle, fileVars, readyOrder>>
    /\ UNCHANGED lexVars

\* Get that leaves the future in its slot.
GetKeepsFuture(slot) == slot

\* The slot after threadPool[nextIndex].get(): the future is not valid any more.
Get(slot) == EmptySlot

\* The history of the clean-up after one more round that found no future.
OneMoreIdle(n) == IF n < threadCount THEN n + 1 ELSE n

\* "clean up thread pool": one round of while (openThreads < threadCount).
DrainRound ==
    /\ pc = "drain"
    /\ openThreads < threadCount
    /\ LET slot == threadPool[nextIndex]
           open == LapOpen(nextIndex, openThreads)
       IN  \/ /\ SlotState(slot) = "ready"
              /\ postInfo' = slot.info
              /\ readyOrder' = Without(readyOrder, slot.info.id)
              /\ threadPool' = [threadPool EXCEPT ![nextIndex] = Get(slot)]
              /\ openThreads' = open + 1
              /\ pc' = "record"
              /\ ret' = "drain"
           \/ /\ SlotState(slot) = "pending"
              /\ openThreads' = open
              /\ UNCHANGED <<pc, ret, threadPool, postInfo, readyOrder>>
           \/ /\ SlotState(slot) = "empty"
              /\ openThreads' = open + 1
              /\ UNCHANGED <<pc, ret, threadPool, postInfo, readyOrder>>
    /\ nextIndex' = NextSlot(nextIndex)
    /\ UNCHANGED <<exitCode, inputVars, parseVars, enumVars, doc, file, foutFail,
                   lastWrite>>
    /\ UNCHANGED lexVars

\* One round of the clean-up.
DrainStep == DrainRound /\ UNCHANGED idle

\* One round of the clean-up, counted in the history.
DrainCounted ==
    /\ DrainRound
    /\ idle' = IF threadPool[nextIndex].valid THEN 0 ELSE OneMoreIdle(idle)

\* The thread pool is cleaned up: main returns 0.
DrainEnd ==
    /\ pc = "drain"
    /\ openThreads >= threadCount
    /\ pc' = "exit"
    /\ exitCode' = 0
    /\ UNCHANGED <<inputVars, parseVars, enumVars, poolVars, fileVars, readyOrder>>
    /\ UNCHANGED lexVars

\* ------------------------------------------------------- the specification
MainStep ==
    \/ PrepareOutput
    \/ ParseFile
    \/ ParseEnd
    \/ Preamble(TRUE)
    \/ Iterate
    \/ Poll
    \/ RecordData(TRUE)
    \/ WriteFile(TRUE)
    \/ EndLoop
    \/ DrainStep
    \/ DrainEnd

Worker == \E i \in 0..(MaxThreads - 1) : JobComplete(i)

Next == MainStep \/ Worker

Spec == Init /\ [][Next]_vars

\* The main thread keeps running, and every simulation that was started
\* returns.
Fairness ==
    /\ WF_vars(MainStep)
    /\ \A i \in 0..(MaxThreads - 1) : WF_vars(JobComplete(i))

LiveSpec == Spec /\ Fairness

\* The runs in which opening or writing the output file may fail after the
\* output file was prepared.
WriteFault ==
    \/ Preamble(FALSE)
    \/ RecordData(FALSE)
    \/ WriteFile(FALSE)

FaultSpec == Init /\ [][Next \/ WriteFault]_vars

\* The parser alone, over the parameters files with entries and custom spins.
ParserNext ==
    \/ PrepareOutput
    \/ ParseFile
    \/ ParseSpin
    \/ ParseEnd

ParserSpec == Init /\ [][ParserNext]_vars

\* The runs that find an output file of an earlier run.
FileInit ==
    /\ pc = "start"
    /\ DeclaredWith(<<"preamble", "data">>)
    /\ threadCount \in 1..MaxThreads
    /\ argv = DefaultThreads
    /\ reader = Idle

FileSpec == FileInit /\ [][Next]_vars

\* The runs with the history of the clean-up.
DrainNext ==
    \/ PrepareOutput
    \/ ParseFile
    \/ ParseEnd
    \/ Preamble(TRUE)
    \/ Iterate
    \/ Poll
    \/ RecordData(TRUE)
    \/ WriteFile(TRUE)
    \/ EndLoop
    \/ DrainCounted
    \/ DrainEnd
    \/ Worker

DrainSpec == Init /\ [][DrainNext]_vars

\* The runs over the parameters files that hold one entry more, for a key
\* that was given before.
ParseRedefined ==
    /\ pc = "parse"
    /\ entries = MaxEntries
    /\ \E key \in Keys, text \in RelabelTexts :
          /\ p[key] # <<>>
          /\ ParseEntry(key, text)

RedefSpec == Init /\ [][Next \/ ParseRedefined]_vars

\* The entries of the parameters files with custom spins: one value, or a
\* list of two.
PlainTexts == {<<Sym("="), Num(1)>>, <<Sym("{"), Num(1), Num(2), Sym("}")>>}

ParsePlain ==
    /\ pc = "parse"
    /\ entries < MaxEntries
    /\ \E key \in Keys, text \in PlainTexts : ParseEntry(key, text)

\* The runs over the parameters files with custom spins.
SpinNext ==
    \/ PrepareOutput
    \/ ParsePlain
    \/ ParseSpin
    \/ ParseEnd
    \/ Preamble(TRUE)
    \/ Iterate
    \/ Poll
    \/ RecordData(TRUE)
    \/ WriteFile(TRUE)
    \/ EndLoop
    \/ DrainStep
    \/ DrainEnd
    \/ Worker

SpinSpec == Init /\ [][SpinNext]_vars

\* The runs from the call of main, for every command line.
ArgsInit ==
    /\ pc = "args"
    /\ Declared
    /\ threadCount \in 1..MaxThreads
    /\ argv \in CommandLines
    /\ reader = Idle

ArgsSpec == ArgsInit /\ [][Arguments \/ Next]_vars

\* The reading of one entry, pass by pass of the do-while loop, for every
\* text that can follow a key.
ReadInit ==
    /\ Start
    /\ threadCount = 1
    /\ argv = DefaultThreads
    /\ reader \in {Reading(text) : text \in Texts}

ReadToken ==
    /\ ~reader.done
    /\ reader' = ReadStep(reader)
    /\ UNCHANGED <<pc, exitCode, inputVars, parseVars, enumVars, poolVars, fileVars,
                   readyOrder, written>>

ReadSpec == ReadInit /\ [][ReadToken]_vars


\* ------------------------------------------------------------- properties
\* The parameters file was parsed and the sweep is running or has ended.
Parsed == pc \in {"write", "loop", "poll", "record", "drain"} \/ exitCode = 0

\* The labels of labelNames, as a set.
Present == {labelNames[i] : i \in 1..Len(labelNames)}

\* The cursors the n-th call of nextIter read, for the labels of the file.
Read(n) == [l \in Present |-> calls[n].cursor[l]]

\* Every combination of cursors below the labels' lengths.
Combos == {f \in [Present -> 0..(MaxLen - 1)] : \A l \in Present : f[l] < iterLengths[l]}

\* C1: the loop calls nextIter exactly l1*...*lk times before hasNextIter is
\* false, and every combination of cursors below the lengths is read by
\* exactly one of the calls.
C1_ProductOfLengths ==
    Parsed =>
        /\ hasNextIter <=> Len(calls) < Product(labelNames, iterLengths)
        /\ ~hasNextIter =>
              \A f \in Combos : Cardinality({n \in 1..Len(calls) : Read(n) = f}) = 1

\* A finished sweep over three labels with four combinations.
C1_Witness ==
    /\ pc = "exit" /\ exitCode = 0
    /\ Len(labelNames) = 3
    /\ Len(calls) = 4

\* C2: odometer order, the first label of the file varying fastest: the n-th
\* call (from 0) reads cursor (n div (l1*...*l(j-1))) mod lj of label j.
C2_OdometerOrder ==
    Parsed =>
        \A n \in 1..Len(calls), j \in 1..Len(labelNames) :
            calls[n].cursor[labelNames[j]] =
                ((n - 1) \div Product(SubSeq(labelNames, 1, j - 1), iterLengths))
                    % iterLengths[labelNames[j]]

\* The third call reads the third label advanced: the carry went through a
\* first label of length 2 and a second label of length 1.
C2_Witness ==
    /\ Parsed
    /\ Len(labelNames) = 3
    /\ Len(calls) >= 3
    /\ iterLengths[labelNames[1]] = 2
    /\ iterLengths[labelNames[2]] = 1
    /\ calls[3].cursor[labelNames[3]] = 1

LabelsOf(k) == {l \in Labels : k \in labelMap[l]}

RecordedIds == {doc.data[i].id : i \in 1..Len(doc.data)}

\* The jobs that were started and whose result was not yet taken from its
\* slot: every Info of nextIter but the one still to be submitted, less the
\* results recorded or about to be.
InFlight ==
    {n \in 1..Len(calls) : ~(pc = "poll" /\ n = curInfo.id)}
        \ (RecordedIds \cup (IF pc = "record" THEN {postInfo.id} ELSE {}))

\* C4: with more than one thread, at most threadCount jobs are started and
\* not yet extracted, in every state of the submission and the draining.
C4_AtMostNInFlight ==
    (Parsed /\ threadCount > 1) => Cardinality(InFlight) <= threadCount

\* The third submission polls a pool of two slots that are both taken.
C4_Witness ==
    /\ threadCount = 2
    /\ pc = "poll"
    /\ Len(calls) = 3
    /\ Cardinality(InFlight) = 2

\* C5: when main returns 0, doc holds exactly one record for every Info
\* nextIter returned, and the record is the result of that Info.
C5_OneRecordEach ==
    (pc = "exit" /\ exitCode = 0) =>
        /\ Len(doc.data) = Len(calls)
        /\ \A n \in 1..Len(calls) :
              Cardinality({i \in 1..Len(doc.data) : doc.data[i].id = n}) = 1
        /\ \A i \in 1..Len(doc.data) :
              doc.data[i] = algorithm(calls[doc.data[i].id].info)

\* A run of two threads over four combinations, recorded out of order.
C5_Witness ==
    /\ pc = "exit" /\ exitCode = 0
    /\ threadCount = 2
    /\ Len(doc.data) = 4
    /\ \E i \in 1..Len(doc.data) : doc.data[i].id # i

\* C6: with more than one thread, if every started simulation returns, every
\* submitted Info is recorded in doc, every submission leaves the polling
\* loop, and the draining ends: the run reaches return 0 with nothing in
\* flight and a record for every call of nextIter.
C6_EveryJobRecorded ==
    (Parsed /\ threadCount > 1) ~>
        /\ pc = "exit" /\ exitCode = 0
        /\ InFlight = {}
        /\ \A n \in 1..Len(calls) : n \in RecordedIds

\* The draining waits for a simulation that is still running.
C6_Witness ==
    /\ threadCount > 1
    /\ pc = "drain"
    /\ Len(calls) = 4
    /\ \E i \in DOMAIN threadPool : SlotState(threadPool[i]) = "pending"

\* C7: with one thread every simulation runs inside its pass of the loop and
\* is recorded before nextIter is called again: the records of doc are the
\* results in the order of enumeration.
C7_SingleThreadOrder ==
    (Parsed /\ threadCount = 1) =>
        /\ \A i \in 1..Len(doc.data) : doc.data[i] = algorithm(calls[i].info)
        /\ pc = "loop" => Len(doc.data) = Len(calls)
        /\ pc = "record" =>
              /\ Len(doc.data) = Len(calls) - 1
              /\ postInfo = algorithm(calls[Len(calls)].info)

\* A finished run of one thread with four records.
C7_Witness ==
    /\ threadCount = 1
    /\ pc = "exit" /\ exitCode = 0
    /\ Len(doc.data) = 4

\* C8: results leave the pool in the order their jobs completed: a result
\* taken from a slot is the oldest finished one still in the pool.
C8_CompletionOrder ==
    [][Len(readyOrder') < Len(readyOrder) => readyOrder' = Tail(readyOrder)]_vars

\* C9: doc is append-only: a step leaves doc alone, adds the preamble to the
\* empty doc, or adds one record behind the records it held.
C9_AppendOnly ==
    [][\/ doc' = doc
       \/ /\ doc = [preamble |-> FALSE, data |-> <<>>]
          /\ doc' = [preamble |-> TRUE, data |-> <<>>]
       \/ /\ doc.preamble /\ doc'.preamble
          /\ Len(doc'.data) = Len(doc.data) + 1
          /\ SubSeq(doc'.data, 1, Len(doc.data)) = doc.data]_vars

\* doc holds the preamble and three records.
C9_Witness ==
    /\ doc.preamble
    /\ Len(doc.data) = 3

\* C10: when the last write succeeded, then after the preamble write and
\* after every finished recordData the file holds the preamble followed by
\* exactly the records of doc, in their order.
C10_FileHoldsReport ==
    (lastWrite = "ok" /\ pc # "write") => file = <<"preamble">> \o doc.data

\* Between two passes of the loop, two records written and more to come.
C10_Witness ==
    /\ lastWrite = "ok"
    /\ pc = "loop"
    /\ hasNextIter
    /\ Len(doc.data) = 2
    /\ file = <<"preamble">> \o doc.data

\* The records of doc whose recordData has returned.
Completed ==
    IF pc = "write" /\ doc.data # <<>>
    THEN SubSeq(doc.data, 1, Len(doc.data) - 1)
    ELSE doc.data

\* C11: once the preamble has been written, the file on disk is at every
\* instant a complete document: the preamble followed by the records
\* completed so far, also while recordData is rewriting the file, when it
\* holds the records up to the one being added or up to the one before it.
C11_EverySnapshotComplete ==
    lastWrite # "none" =>
        \/ file = <<"preamble">> \o doc.data
        \/ file = <<"preamble">> \o Completed

\* C12: a failed write is not fatal.  A write that ends, failed or not,
\* leaves doc and the exit code alone and returns to the loop it came from;
\* a write that succeeds after a failed one leaves in the file the preamble
\* and every record of doc; and main returns 0 only with a record for
\* every combination of the sweep.
C12_WriteFailureNonFatal ==
    /\ [][(pc = "write" /\ pc' # "write") =>
              /\ pc' = ret
              /\ exitCode' = -1
              /\ doc' = doc
              /\ calls' = calls /\ hasNextIter' = hasNextIter
              /\ (lastWrite = "failed" /\ lastWrite' = "ok") =>
                     file' = <<"preamble">> \o doc.data]_vars
    /\ [](Parsed => exitCode \in {-1, 0})
    /\ []((pc = "exit" /\ exitCode = 0) =>
              /\ Len(calls) = Product(labelNames, iterLengths)
              /\ Len(doc.data) = Len(calls))

\* The write of the second record failed with two records in doc, and the
\* next result is about to be recorded.
C12_Witness ==
    /\ lastWrite = "failed"
    /\ pc = "record"
    /\ Len(doc.data) = 2
    /\ file # <<"preamble">> \o doc.data

\* C13: doc and the output file are touched by the main thread only, one
\* operation at a time: a step that changes doc, the file or the stream is a
\* step of the main thread at the preparation of the file, at the preamble
\* or in recordData, and no completion of a job is part of it; while a
\* write is under way no record is added to doc.
C13_SingleConsumer ==
    [][(<<doc, file, foutFail, lastWrite>>' # <<doc, file, foutFail, lastWrite>>) =>
          /\ pc \in {"start", "preamble", "record", "write"}
          /\ pc' # pc
          /\ readyOrder' = readyOrder
          /\ \A i \in DOMAIN threadPool :
                threadPool[i].valid => threadPool'[i] = threadPool[i]
          /\ pc = "write" => doc' = doc]_vars

\* A record is being written while one job is running and another has
\* finished.
C13_Witness ==
    /\ pc = "write"
    /\ doc.data # <<>>
    /\ \E i, j \in DOMAIN threadPool :
          /\ SlotState(threadPool[i]) = "pending"
          /\ SlotState(threadPool[j]) = "ready"

\* Two entries of different keys were written with one label and with value
\* lists of different lengths.
Mismatch ==
    \E l \in Labels : \E a, b \in written[l] : a[1] # b[1] /\ a[2] # b[2]

\* C14: when two parameters of the file share a label and their lists differ
\* in length, main has returned 0x17 at the second of them, nextIter was
\* never called and no simulation was started or recorded.
C14_LabelLengthError ==
    Mismatch =>
        /\ pc = "exit"
        /\ exitCode = 23
        /\ calls = <<>>
        /\ DOMAIN threadPool = {}
        /\ postInfo = NoInfo
        /\ doc = [preamble |-> FALSE, data |-> <<>>]

\* B_x and kT were written with the label kT, with one and with two values.
C14_Witness ==
    /\ exitCode = 23
    /\ written["kT"] = {<<"B_x", 1>>, <<"kT", 2>>}

\* The parser has read the parameters file to its end without a throw.
ParseDone == pc = "preamble" \/ Parsed

\* C15: after the parse, every parameter in the set of a label holds a list
\* of exactly the length recorded for the label.
C15_LabelLengths ==
    ParseDone =>
        \A l \in Labels : \A k \in labelMap[l] : Len(p[k]) = iterLengths[l]

\* C16: in every Info of nextIter, every parameter with a field takes the
\* value of its list at the cursor of its label, the label of its last
\* entry: the parameters of one label are read at one and the same index.
C16_Lockstep ==
    Parsed =>
        \A n \in 1..Len(calls) : \A k \in FieldKeys :
            LET c == calls[n].cursor[labelMapInv[k]]
            IN  /\ c < Len(p[k])
                /\ calls[n].info.params[k] = p[k][c + 1]

\* The operators that open the values of an entry.
IsOp(tok) == tok.s \in {"=", ":", "{"}

\* The number of tokens before the operator of a text: the label token, if any.
Lead(text) == IF text # <<>> /\ ~IsOp(text[1]) THEN 1 ELSE 0

\* The text is a range: ":" and three numbers, the step different from 0.
IsRange(text) ==
    LET k == Lead(text)
    IN  /\ Len(text) >= k + 4
        /\ text[k + 1].s = ":"
        /\ \A j \in 2..4 : IsNum(text[k + j])
        /\ text[k + 4].v # 0

RangeStart(text) == text[Lead(text) + 2].v
RangeLimit(text) == text[Lead(text) + 3].v
RangeStep(text) == text[Lead(text) + 4].v

\* The reader has just read the range of its text.
RangeRead ==
    /\ IsRange(reader.text)
    /\ reader.code = 0
    /\ Len(reader.rest) = Len(reader.text) - Lead(reader.text) - 4

\* The j-th term of the progression of the range of the reader's text.
Term(j) == RangeStart(reader.text) + (j - 1) * RangeStep(reader.text)

\* The term lies beyond the limit, in the direction of the step.
PassesLimit(t) ==
    \/ RangeStep(reader.text) > 0 /\ t > RangeLimit(reader.text)
    \/ RangeStep(reader.text) < 0 /\ t < RangeLimit(reader.text)

\* The term lies beyond the limit by the 256th part of the step, or by more.
PassesTolerance(t) ==
    LET lim == RangeLimit(reader.text)
        inc == RangeStep(reader.text)
    IN  \/ inc > 0 /\ (t - lim) * Tolerance >= inc
        \/ inc < 0 /\ (t - lim) * Tolerance =< inc

IsBadRange(text) ==
    LET k == Lead(text)
    IN  /\ Len(text) > k
        /\ text[k + 1].s = ":"
        /\ ~IsRange(text)

\* No job has been started and nothing has been recorded.
NothingRun ==
    /\ calls = <<>>
    /\ DOMAIN threadPool = {}
    /\ postInfo = NoInfo
    /\ doc = [preamble |-> FALSE, data |-> <<>>]

\* C18: a range whose step is 0, or that lacks one of its three numbers,
\* ends the program with the exit code 0x12 = 18: the entry is not kept
\* and no job runs.
C18_BadRangeFatal ==
    IsBadRange(reader.text) =>
        /\ pc = "exit"
        /\ exitCode = 18
        /\ reader.code = 2
        /\ reader.vec = <<>>
        /\ NothingRun

\* The range 1 2 0 has ended the program.
C18_Witness ==
    /\ reader.text = <<Sym(":"), Num(1), Num(2), Num(0)>>
    /\ pc = "exit"
    /\ exitCode = 18

\* The numbers after the "{" of a list.
ListValues(text) == Numbers(SubSeq(text, Lead(text) + 2, Len(text)))

\* The token after the numbers of a list is "}".
BraceEnds(text) ==
    LET i == Lead(text) + 2 + Len(ListValues(text))
    IN  i <= Len(text) /\ text[i].s = "}"

\* The text is a list: "{", at least one number, "}".
IsList(text) ==
    /\ Len(text) > Lead(text)
    /\ text[Lead(text) + 1].s = "{"
    /\ ListValues(text) # <<>>
    /\ BraceEnds(text)

\* C19: a list { v1 ... vn } yields exactly v1, ..., vn, in the order of
\* the file, and the entry is read with it.
C19_ListInOrder ==
    (IsList(reader.text) /\ reader.done) =>
        /\ reader.code = 0
        /\ reader.vec = [j \in 1..Len(ListValues(reader.text)) |->
                            reader.text[Lead(reader.text) + 1 + j].v]
        /\ Len(reader.rest) =
                Len(reader.text) - Lead(reader.text) - Len(reader.vec) - 2

\* The list { 5 1 } has been read.
C19_Witness ==
    /\ reader.text = <<Sym("{"), Num(5), Num(1), Sym("}")>>
    /\ reader.done
    /\ reader.vec = <<5, 1>>

\* The text is a list without values: "{" and "}" at once.
IsEmptyList(text) ==
    LET k == Lead(text)
    IN  /\ Len(text) >= k + 2
        /\ text[k + 1].s = "{"
        /\ text[k + 2].s = "}"

\* The text is a list that no "}" ends.
IsOpenList(text) ==
    LET k == Lead(text)
    IN  /\ Len(text) > k
        /\ text[k + 1].s = "{"
        /\ ~BraceEnds(text)

\* C20: a list without values ends the program with the exit code
\* 0x16 = 22 and a list that no "}" ends with 0x13 = 19; the tables of the
\* parameters stay as they were and no job runs.
C20_BadListFatal ==
    /\ [](IsEmptyList(reader.text) => pc = "exit" /\ exitCode = 22 /\ NothingRun)
    /\ [](IsOpenList(reader.text) => pc = "exit" /\ exitCode = 19 /\ NothingRun)
    /\ [][(IsEmptyList(reader'.text) \/ IsOpenList(reader'.text))
            => UNCHANGED <<p, labelNames, labelMap, labelMapInv, iters, iterLengths>>]_vars

\* A list that "=" follows in place of "}" has ended a run, after an entry
\* was stored.
C20_Witness ==
    /\ pc = "exit"
    /\ exitCode = 19
    /\ entries >= 2
    /\ reader.text = <<Sym("{"), Num(1), Sym("=")>>

\* The text begins with two bare tokens: neither is "=", ":" or "{".
TwoBare(text) == Len(text) >= 2 /\ ~IsOp(text[1]) /\ ~IsOp(text[2])

\* C21: an entry with a second bare token before its operator ends the
\* program with the exit code 0x14 = 20, nothing of it is kept and no job
\* runs; an entry that is kept has at most one bare token, its label.
C21_SecondLabelFatal ==
    /\ TwoBare(reader.text) =>
            /\ pc = "exit"
            /\ exitCode = 20
            /\ reader.code = 4
            /\ reader.vec = <<>>
            /\ NothingRun
    /\ (reader.text # <<>> /\ reader.code \in {0, 7}) =>
            /\ ~TwoBare(reader.text)
            /\ reader.lbl = IF Lead(reader.text) = 1 THEN Str(reader.text[1]) ELSE ""

\* The entry "kT kT = 1" has ended the program after another entry was kept.
C21_Witness ==
    /\ reader.text = <<Sym("kT"), Sym("kT"), Sym("="), Num(1)>>
    /\ pc = "exit"
    /\ exitCode = 20
    /\ entries >= 2

\* The label the text of an entry of key asks for: its bare token, or key.
AskedLabel(text, key) == IF Lead(text) = 1 THEN Str(text[1]) ELSE key

\* The tables after the entry of key that the reader has read is stored.
StoredAs(key) ==
    LET lbl == AskedLabel(reader'.text, key)
    IN  /\ p' = [p EXCEPT ![key] = reader'.vec]
        /\ labelMapInv' = [labelMapInv EXCEPT ![key] = lbl]
        /\ labelMap' = [labelMap EXCEPT ![lbl] = @ \cup {key}]
        /\ <<key, Len(reader'.vec)>> \in written'[lbl]

\* The parameters that are labelled with the key of another parameter.
Coupled ==
    {pair \in FieldKeys \X FieldKeys :
        /\ pair[1] # pair[2]
        /\ p[pair[1]] # <<>>
        /\ labelMapInv[pair[1]] = pair[2]
        /\ labelMapInv[pair[2]] = pair[2]}

\* C22: an entry without label token is stored with its key as label and an
\* entry with a bare token before the operator with that token; a parameter
\* labelled with the key of another parameter takes, in every call of
\* nextIter, the value at the cursor that the other parameter's value is at.
C22_DefaultAndGivenLabel ==
    /\ [][(entries' = entries + 1 /\ reader'.code \in {0, 7})
            => \E key \in Keys : StoredAs(key)]_vars
    /\ [](Parsed =>
            \A pair \in Coupled : \A n \in 1..Len(calls) :
                LET c == calls[n].cursor[pair[2]]
                IN  /\ calls[n].info.params[pair[1]] = p[pair[1]][c + 1]
                    /\ calls[n].info.params[pair[2]] = p[pair[2]][c + 1])

\* The labels some entry was written with.
Used == {l \in Labels : written[l] # {}}

\* C23: labelNames holds every label that an entry was written with exactly
\* once; a label is added at the end, by the first entry written with it,
\* and an entry written with a label of the list leaves the list as it is.
C23_LabelsOnceInOrder ==
    /\ [](/\ Present = Used
          /\ Len(labelNames) = Cardinality(Used))
    /\ [][\/ labelNames' = labelNames
          \/ \E l \in Labels \ Used :
                /\ labelNames' = Append(labelNames, l)
                /\ written'[l] # {}]_vars
    /\ [][\A l \in Used : written'[l] # written[l] => labelNames' = labelNames]_vars

\* The label kT was written first by B_x, then width, then kT came with its own
\* key as label: the list holds kT before width, and kT once.
C23_Witness ==
    /\ labelNames = <<"kT", "width">>
    /\ written["kT"] = {<<"B_x", 1>>, <<"kT", 1>>}
    /\ entries = 3
    /\ pc = "loop"

\* The exit status the operating system keeps of what main returns.
Status(e) == e % 256

\* The class of the error that main returns with from where it is.
ErrorClass ==
    IF pc = "args"
    THEN IF argv.argc <= 5 THEN "arguments"
         ELSE IF \/ argv.argc > 6 /\ (~IsNum(argv.threads) \/ argv.threads.v <= 0)
                 \/ argv.model = "x"
                 \/ argv.mode = "x"
              THEN "strings" ELSE "molecule"
    ELSE IF pc = "start" THEN "output"
    ELSE IF pc = "parse" THEN "parse"
    ELSE IF pc = "preamble" THEN "key"
    ELSE "none"

\* The exit statuses of the classes: -1, -2, -6, -7, -8 for a missing
\* argument, -3, -5, -4 for an invalid string, -9 for a molecule file that
\* does not load, 0x21 and 0x22, 0x11 to 0x17, 0x18, and 0 for a run to the end.
ClassCodes ==
    [arguments |-> {255, 254, 250, 249, 248},
     strings |-> {253, 251, 252},
     molecule |-> {247},
     output |-> {33, 34},
     parse |-> 17..23,
     key |-> {24},
     none |-> {0}]

\* C25: main returns with a status of the class of its error, and the
\* statuses of two classes are never the same, nor 0 for an error.
C25_DistinctExitCodes ==
    /\ [][(pc' = "exit" /\ pc # "exit") => Status(exitCode') \in ClassCodes[ErrorClass]]_vars
    /\ \A c, d \in DOMAIN ClassCodes : c # d => ClassCodes[c] \cap ClassCodes[d] = {}

\* main has returned -4 for "0" as the number of threads.
C25_Witness ==
    /\ pc = "exit"
    /\ exitCode = -4
    /\ argv.threads = Num(0)

\* C26: when main has returned with an error of the command line, of the
\* output file, of the parameters file or of a missing parameter, nextIter
\* was never called, no simulation was started and nothing was recorded.
C26_ErrorsBeforeAnyJob ==
    ((pc = "exit" /\ exitCode # 0) \/ exitCode \notin {-1, 0}) =>
        /\ NothingRun
        /\ preInfo = NoInfo
        /\ lastWrite = "none"

\* A parameters file of three entries without a value for width has ended
\* the run of a command line with a number of threads.
C26_Witness ==
    /\ pc = "exit"
    /\ exitCode = 24
    /\ argv.argc = 7
    /\ entries = MaxEntries

\* The tokens of a text without the brackets that are tokens of their own.
Unbracketed(text) == SelectSeq(text, LAMBDA t : t.s \notin {"[", "]"})

\* The text is a custom spin "[x y z] = norm", each bracket attached to its
\* number or not.
IsSpin(text) ==
    /\ text # <<>>
    /\ Head(text).s \in {"[", "[num"}
    /\ Len(Unbracketed(text)) = 5
    /\ Unbracketed(text)[4].s = "="

\* The Spin that the text of a custom spin stands for.
SpinOf(text) ==
    LET t == Unbracketed(text)
    IN  Spin(t[1].v, t[2].v, t[3].v, t[5].v)

\* C24: a custom spin "[x y z] = norm" is parsed to (x, y, z, norm) whether
\* its brackets are attached to the numbers or tokens of their own, and the
\* custom spins are appended to the list in the order of the file.
C24_SpinOverrideForms ==
    /\ [](IsSpin(reader.text) =>
            /\ reader.code = 0
            /\ spins # <<>>
            /\ spins[Len(spins)] = SpinOf(reader.text))
    /\ [][spins' # spins => spins' = Append(spins, SpinOf(reader'.text))]_vars

\* The Infos with results: the recorded ones, the one to record next, and
\* the ones of the futures that are ready.
Computed ==
    {doc.data[i] : i \in 1..Len(doc.data)}
        \cup {threadPool[i].info : i \in {j \in DOMAIN threadPool : threadPool[j].ready}}
        \cup (IF postInfo.computed THEN {postInfo} ELSE {})

\* The Configuration of info without the custom spins that address no site.
OnLattice(info) ==
    [info EXCEPT !.spins = SelectSeq(info.spins, HasSite), !.computed = FALSE,
                 !.applied = <<>>]

\* C27: a custom spin that addresses no lattice site is skipped and the
\* custom spins after it are still set: the results of every job are the
\* results of the job with the same Configuration without the custom spins
\* off the lattice.
C27_BadSpinSkipped ==
    \A d \in Computed :
        /\ d.applied = algorithm(OnLattice(d)).applied
        /\ d.params = algorithm(OnLattice(d)).params
        /\ \A i \in 1..Len(d.spins) :
                HasSite(d.spins[i]) =>
                    \E j \in 1..Len(d.applied) : d.applied[j] = d.spins[i]

\* A job with a custom spin off the lattice before one at a site is
\* recorded, with the second one set.
C27_Witness ==
    /\ doc.data # <<>>
    /\ doc.data[1].spins = <<Spin(0, 0, 0, 5), Spin(1, 2, 3, 5)>>
    /\ doc.data[1].applied = <<Spin(1, 2, 3, 5)>>

\* C30: every Info of nextIter carries the list of custom spins of the
\* parameters file, whatever the cursors are; the list holds the custom
\* spins in the order they were read in and is not changed after the parse.
C30_SameSpinsEveryJob ==
    /\ [](\A n \in 1..Len(calls) : calls[n].info.spins = spins)
    /\ [](\A d \in Computed : d.spins = spins)
    /\ [][\/ spins' = spins
          \/ /\ pc = "parse"
             /\ Len(spins') = Len(spins) + 1
             /\ SubSeq(spins', 1, Len(spins)) = spins
             /\ spins'[Len(spins')] = SpinOf(reader'.text)]_vars

\* Two Configurations with different cursors carry the same two custom spins.
C30_Witness ==
    /\ Len(calls) = 2
    /\ calls[1].cursor # calls[2].cursor
    /\ spins = <<Spin(1, 2, 3, 5), Spin(0, 0, 0, 5)>>
    /\ calls[2].info.spins = spins

\* The place of a label in labelNames.
Pos(l) == CHOOSE j \in 1..Len(labelNames) : labelNames[j] = l

\* The cursor of label l at the n-th call of nextIter as the parameters file
\* fixes it: the odometer over labelNames, the first label turning fastest.
CursorAt(l, n) ==
    LET j == Pos(l)
    IN  ((n - 1) \div Product(SubSeq(labelNames, 1, j - 1), iterLengths))
            % iterLengths[l]

\* The places in KeyOrder of the labels that give parameter k a value at the
\* n-th call: k is in the label's set and the label's cursor is in k's list.
Writers(k, n) ==
    {i \in 1..Len(KeyOrder) :
        /\ k \in labelMap[KeyOrder[i]]
        /\ CursorAt(KeyOrder[i], n) < Len(p[k])}

RECURSIVE Expected(_)
\* The parameters of the n-th Configuration as the parameters file fixes
\* them: every parameter at the cursor of the last label in map order that
\* gives it a value, and as in the Configuration before where none does.
Expected(n) ==
    IF n = 0 THEN NoInfo.params
    ELSE [k \in FieldKeys |->
            IF Writers(k, n) = {} THEN Expected(n - 1)[k]
            ELSE LET i == CHOOSE w \in Writers(k, n) : \A v \in Writers(k, n) : v <= w
                 IN  p[k][CursorAt(KeyOrder[i], n) + 1]]

\* C28: the sequence of the Configurations is fixed by the parameters file:
\* the n-th call of nextIter yields the n-th Configuration of the file,
\* whatever the number of threads and whenever the jobs end, and the run ends
\* after as many calls as the file has combinations; the calls made stay as
\* they are, and the tables are not changed after the parse.
C28_DeterministicEnumeration ==
    /\ [](Parsed =>
            /\ \A n \in 1..Len(calls) :
                  /\ calls[n].info.id = n
                  /\ calls[n].info.params = Expected(n)
            /\ Len(calls) <= Product(labelNames, iterLengths)
            /\ pc = "exit" => Len(calls) = Product(labelNames, iterLengths))
    /\ [][\/ calls' = calls
          \/ calls = SubSeq(calls', 1, Len(calls') - 1)]_vars
    /\ [][Parsed => UNCHANGED <<p, labelNames, labelMap, labelMapInv, iterLengths,
                               spins>>]_vars

\* With two threads the third Configuration was built after the first job
\* had ended and while the second was running.
C28_Witness ==
    /\ threadCount = 2
    /\ Len(calls) = 3
    /\ calls[3].info.params # calls[1].info.params
    /\ Len(doc.data) = 1
    /\ \E i \in DOMAIN threadPool : SlotState(threadPool[i]) = "pending"

\* The Infos that were handed to a simulation: the ones in the thread pool
\* and the ones with results.
Handed == Computed \cup {threadPool[i].info : i \in {j \in DOMAIN threadPool : threadPool[j].valid}}

\* C29: the parameters of an Info that was handed to a simulation, and of
\* its record, are the ones that the call of nextIter that built it gave it,
\* however often nextIter has written to its static preInfo since.
C29_ConfigurationNotChanged ==
    Parsed =>
        \A d \in Handed :
            /\ d.id \in 1..Len(calls)
            /\ d.params = calls[d.id].info.params
            /\ d.spins = calls[d.id].info.spins

\* The first job has its result while nextIter has built two more Infos
\* with other parameters.
C29_Witness ==
    /\ \E i \in DOMAIN threadPool :
          /\ threadPool[i].ready
          /\ threadPool[i].info.id = 1
          /\ threadPool[i].info.params # preInfo.params
    /\ preInfo.id = 3

\* The last combination: every label with an entry at its last index.
LastCombo == [l \in Labels |-> IF l \in Present THEN iterLengths[l] - 1 ELSE 0]

\* C31: every cursor is 0 until the first call of nextIter and below its
\* label's length after every call; every call reads cursors below the
\* lengths; and hasNextIter turns false in the call that reads the last
\* combination, and in no other.
C31_CursorsInRange ==
    /\ [](pc \in {"parse", "preamble"} \/ (Parsed /\ calls = <<>>)
            => \A l \in Labels : iters[l] = 0)
    /\ [](Parsed =>
            /\ \A l \in Present : iters[l] \in 0..(iterLengths[l] - 1)
            /\ \A n \in 1..Len(calls) : \A l \in Present :
                  calls[n].cursor[l] \in 0..(iterLengths[l] - 1)
            /\ hasNextIter <=> (calls = <<>> \/ calls[Len(calls)].cursor # LastCombo))
    /\ [][hasNextIter /\ ~hasNextIter'
            => /\ Len(calls') = Len(calls) + 1
               /\ calls'[Len(calls')].cursor = LastCombo]_vars

\* The fourth call read the last combination of two labels of two values,
\* and the carry has set every cursor back to 0.
C31_Witness ==
    /\ Parsed /\ ~hasNextIter
    /\ Len(calls) = 4
    /\ Cardinality(Present) = 2
    /\ \A l \in Present : calls[4].cursor[l] = 1 /\ iters[l] = 0

\* A slot without a future, and a slot with a result that was not taken.
IsFree(slot) == ~slot.valid
HasResult(slot) == slot.valid /\ slot.ready

\* The slots in which a step starts a simulation.
StartedIn == {i \in DOMAIN threadPool : threadPool'[i] # threadPool[i] /\ ~threadPool'[i].ready}

\* A step of the main thread in the while(true) loop of the pool; the steps
\* of the worker threads leave pc and nextIndex alone.
PollStep == pc = "poll" /\ (pc' # pc \/ nextIndex' # nextIndex)

\* A free slot at nextIndex takes the new simulation, and nothing is recorded.
FreeSlotClaimed ==
    PollStep /\ IsFree(threadPool[nextIndex])
        => /\ threadPool' = [threadPool EXCEPT ![nextIndex] =
                                [valid |-> TRUE, ready |-> FALSE, info |-> curInfo]]
           /\ pc' = "loop"
           /\ UNCHANGED <<nextIndex, postInfo, doc, file>>

\* A running simulation at nextIndex moves nextIndex on by one, round-robin.
RunningSlotPassed ==
    PollStep /\ ~IsFree(threadPool[nextIndex]) /\ ~HasResult(threadPool[nextIndex])
        => /\ nextIndex' = (nextIndex + 1) % threadCount
           /\ UNCHANGED <<pc, threadPool, postInfo, doc, file>>

\* A simulation is started at nextIndex only, with the Info of the last call
\* of nextIter, in a slot that is free or whose result the step takes.
StartedInFreedSlot ==
    pc \in {"loop", "poll", "record", "write"} /\ ret = "loop"
        => \A i \in StartedIn :
              /\ PollStep
              /\ i = nextIndex
              /\ threadPool'[i].info = curInfo
              /\ \/ IsFree(threadPool[i])
                 \/ (HasResult(threadPool[i]) /\ postInfo' = threadPool[i].info /\ pc' = "record")

\* A step takes one result at most.
OneResultTaken ==
    Cardinality({i \in DOMAIN threadPool :
                    HasResult(threadPool[i]) /\ ~HasResult(threadPool'[i])}) <= 1

\* C32: in the loop with a pool, a free slot at nextIndex takes the new
\* simulation and nothing is recorded; a running one moves nextIndex on by
\* one, round-robin, and nothing else; a simulation is started at nextIndex
\* only, in a slot that is free or whose result this step takes; and a step
\* takes one result at most.
C32_SubmitRoundRobin ==
    /\ [][FreeSlotClaimed]_vars
    /\ [][RunningSlotPassed]_vars
    /\ [][StartedInFreedSlot]_vars
    /\ [][OneResultTaken]_vars

\* The third simulation: nextIndex was left at slot 1, the second simulation
\* there is running, so the loop has moved on to slot 0, taken the result of
\* the first and started the third in its place.
C32_Witness ==
    /\ pc = "record" /\ ret = "loop"
    /\ threadCount = 2
    /\ nextIndex = 0
    /\ postInfo.id = 1 /\ postInfo.computed
    /\ threadPool[0].info.id = 3 /\ ~HasResult(threadPool[0]) /\ ~IsFree(threadPool[0])
    /\ threadPool[1].info.id = 2 /\ ~HasResult(threadPool[1]) /\ ~IsFree(threadPool[1])

\* A step of the main thread in the clean-up loop of the pool.
DrainStepTaken == pc = "drain" /\ (pc' # pc \/ nextIndex' # nextIndex)

\* A slot without a future is passed: nothing is recorded, nothing fails.
FreeSlotSkipped ==
    DrainStepTaken /\ openThreads < threadCount /\ IsFree(threadPool[nextIndex])
        => UNCHANGED <<pc, exitCode, threadPool, postInfo, doc, file>>

\* What the clean-up records is the result of the slot at nextIndex, which
\* is taken out of the slot.
ResultRecorded ==
    pc = "drain" /\ pc' = "record"
        => /\ HasResult(threadPool[nextIndex])
           /\ postInfo' = threadPool[nextIndex].info
           /\ threadPool' = [threadPool EXCEPT ![nextIndex] = EmptySlot]

\* C33: in the clean-up of the pool a slot without a future (never used, or
\* its result taken before) adds no record and ends nothing; a record is
\* added only for a slot with a finished simulation whose result was not
\* taken, and every record of the document is a result of a simulation.
C33_DrainSkipsFreeSlots ==
    /\ [][FreeSlotSkipped]_vars
    /\ [][ResultRecorded]_vars
    /\ [][ret = "drain" /\ doc'.data # doc.data
            => pc = "record" /\ doc'.data = Append(doc.data, postInfo)]_vars
    /\ [](\A n \in 1..Len(doc.data) : doc.data[n].computed /\ doc.data[n].id \in 1..Len(calls))

\* A pool of two threads for one simulation: the clean-up has taken the
\* result out of slot 0, passed slot 1, which never held a simulation, and
\* passed both again on its last lap.
C33_Witness ==
    /\ pc = "exit" /\ exitCode = 0
    /\ threadCount = 2
    /\ Len(calls) = 1
    /\ Len(doc.data) = 1
    /\ \A i \in DOMAIN threadPool : IsFree(threadPool[i])

\* The clean-up of the pool runs, a record of it included.
Draining == pc = "drain" \/ (pc \in {"record", "write"} /\ ret = "drain")

\* The clean-up starts at the slot where the loop left nextIndex, and every
\* round of it looks at the slot at nextIndex only and goes on to the next
\* one, round-robin.
SweepsRoundRobin ==
    /\ pc = "loop" /\ pc' = "drain" => nextIndex' = nextIndex
    /\ DrainStepTaken /\ pc' # "exit"
          => /\ nextIndex' = (nextIndex + 1) % threadCount
             /\ \A i \in DOMAIN threadPool :
                   i # nextIndex /\ threadPool'[i] # threadPool[i]
                      => threadPool[i].valid /\ threadPool'[i].valid

\* The clean-up does not end while a simulation runs.
EndsWithNoneRunning ==
    pc = "drain" /\ pc' = "exit"
        => \A i \in DOMAIN threadPool : threadPool[i].valid => threadPool[i].ready

\* The clean-up ends after threadCount rounds in a row that found no future.
EndsOnIdleLap == pc = "drain" /\ pc' = "exit" => idle >= threadCount

\* C34 as stated: the clean-up goes round-robin from the slot where the loop
\* left nextIndex and ends on a lap over all slots in which no result was
\* taken and no simulation was found running; it does not end while a
\* simulation runs.
C34_EndsOnIdleLap ==
    /\ [][SweepsRoundRobin]_vars
    /\ [][EndsOnIdleLap]_vars
    /\ [][EndsWithNoneRunning]_vars

\* C34 amended: the clean-up goes round-robin from the slot where the loop
\* left nextIndex and ends after the first lap from slot 0 to the last slot
\* in which every slot was found without a future or with a result, the
\* results taken in that lap included: when openThreads has counted all
\* slots, nextIndex is back at slot 0 and every slot is free. It does not
\* end while a simulation runs.
C34_EndsOnLapFromSlotZero ==
    /\ [][SweepsRoundRobin]_vars
    /\ [][EndsWithNoneRunning]_vars
    /\ [][pc = "drain" /\ pc' = "exit"
             => nextIndex = 0 /\ \A i \in DOMAIN threadPool : IsFree(threadPool[i])]_vars
    /\ [](Draining
             => /\ openThreads <= threadCount
                /\ openThreads = threadCount
                      => nextIndex = 0 /\ \A i \in DOMAIN threadPool : IsFree(threadPool[i]))

\* The clean-up has taken the result of the last slot in the round that
\* completed the count: it ends without a further lap.
C34_Witness ==
    /\ pc = "record" /\ ret = "drain"
    /\ openThreads = threadCount
    /\ idle = 0
    /\ postInfo.computed

\* C35: when main returns after the clean-up of the pool, every slot of the
\* pool is without a future, and the result of every simulation that was
\* started is in the document.
C35_PoolEmptyAtReturn ==
    pc = "exit" /\ exitCode = 0 /\ threadCount > 1
        => /\ DOMAIN threadPool = 0..(threadCount - 1)
           /\ \A i \in DOMAIN threadPool : IsFree(threadPool[i])
           /\ {doc.data[n].id : n \in 1..Len(doc.data)} = 1..Len(calls)
           /\ Len(doc.data) = Len(calls)

\* main has returned after four simulations in a pool of two threads.
C35_Witness ==
    /\ pc = "exit" /\ exitCode = 0
    /\ threadCount = 2
    /\ Len(calls) = 4
    /\ Len(doc.data) = 4

\* The entry read last was stored in the tables.
Stored == reader.text # <<>> /\ reader.done /\ reader.code = 0

\* The text of the entry read last starts with a range that holds no value.
AfterEmptyRange ==
    /\ Len(reader.text) > 4
    /\ SubSeq(reader.text, 1, 4) = EmptyRange

\* C36: every list the parser stores holds one value at least, also for an
\* entry whose range starts beyond its limit; so every label with an entry
\* has a length of one at least, in the parse and after it, and the number
\* of combinations, by which the step of the progress is divided, is one at
\* least.
C36_LengthsAtLeastOne ==
    /\ Stored => Len(reader.vec) >= 1
    /\ \A k \in Keys : labelMapInv[k] # "" => Len(p[k]) >= 1
    /\ \A l \in Labels : labelMap[l] # {} => iterLengths[l] >= 1
    /\ \A i \in 1..Len(labelNames) : iterLengths[labelNames[i]] >= 1
    /\ Product(labelNames, iterLengths) >= 1

\* An entry with a range from 2 to 1 by 1, which holds no value, and "= 1"
\* after it was stored with the one value.
C36_Witness ==
    /\ Stored
    /\ AfterEmptyRange
    /\ reader.vec = <<1>>
    /\ \E k \in Keys : p[k] = <<1>> /\ iterLengths[labelMapInv[k]] = 1

\* C37: after the parse every parameter with an entry is in the set of one
\* label only, the label that labelMapInv gives it, also when the file gives
\* the parameter more than once.
C37_OneLabelEach ==
    ParseDone =>
        \A k \in Keys :
            labelMapInv[k] # "" => {l \in Labels : k \in labelMap[l]} = {labelMapInv[k]}

\* The output file holds the line of "prepare output file" and nothing
\* else, and the document is empty.
OnlyTrash == file = <<"trash">> /\ doc = [preamble |-> FALSE, data |-> <<>>]

\* C39: once the output file was prepared, it holds the placeholder line
\* only, whatever it held before, until the parse has ended and the skeleton
\* is written; so it does in every run that ends with a corrupted
\* parameters file (17 to 23) or with a name without entry (24), and no run
\* with a name without entry gets as far as writing the skeleton or a
\* record.
C39_OnlyPlaceholderOnFailure ==
    /\ pc \in {"parse", "preamble"} => OnlyTrash
    /\ pc = "exit" /\ exitCode \in 17..24 => OnlyTrash
    /\ ParseDone /\ (\E k \in Keys : p[k] = <<>>) => OnlyTrash /\ NothingRun

\* A run over an output file of an earlier run has read one entry at least
\* and ends with a name without entry: the file holds the placeholder line.
C39_Witness ==
    /\ pc = "exit"
    /\ exitCode = 24
    /\ entries >= 1
    /\ file = <<"trash">>

\* The text gives no operator: the file ends after the key or its label.
NoOperator(text) == Len(text) = Lead(text) /\ Len(text) <= 1

\* The text gives no number after "=".
NoValue(text) ==
    LET k == Lead(text)
    IN  /\ Len(text) > k
        /\ text[k + 1].s = "="
        /\ (Len(text) = k + 1 \/ ~IsNum(text[k + 2]))

\* The text is a custom spin without "=".
SpinWithoutEq(text) ==
    /\ text # <<>>
    /\ Head(text).s \in {"[", "[num"}
    /\ \A i \in 1..Len(text) : text[i].s # "="

\* What is wrong with the entry or custom spin that the parser read last.
Cause ==
    IF SpinWithoutEq(reader.text) THEN "spin"
    ELSE IF reader.text # <<>> /\ Head(reader.text).s \in {"[", "[num"} THEN "none"
    ELSE IF TwoBare(reader.text) THEN "label"
    ELSE IF NoOperator(reader.text) THEN "operator"
    ELSE IF IsBadRange(reader.text) THEN "range"
    ELSE IF IsEmptyList(reader.text) THEN "empty"
    ELSE IF IsOpenList(reader.text) THEN "list"
    ELSE IF NoValue(reader.text) THEN "value"
    ELSE IF Mismatch THEN "length"
    ELSE "none"

\* The exit codes of the causes in the entries: 0x11 to 0x17.
CauseCode ==
    [operator |-> 17, range |-> 18, list |-> 19, label |-> 20, value |-> 21,
     empty |-> 22, length |-> 23]

\* The parser has ended the run: main has returned after the output file
\* was prepared.
ParserEnded == pc = "exit" /\ file = <<"trash">>

\* C38: a run that the parser ends returns the code of the cause of its
\* failure: one code each for the seven causes in an entry, and for a
\* custom spin without "=" a code that is none of these.
C38_OwnCodePerCause ==
    ParserEnded /\ Cause # "none" =>
        IF Cause = "spin"
        THEN exitCode \notin {CauseCode[c] : c \in DOMAIN CauseCode}
        ELSE exitCode = CauseCode[Cause]

\* The seven causes in an entry have one code each: what fails in C38 is
\* the code of the custom spin.
EntryCausesOwnCodes ==
    ParserEnded /\ Cause \notin {"none", "spin"} => exitCode = CauseCode[Cause]

====
